---- MODULE Spec2Model ----
(***************************************************************************)
(* fdc (Find Dead Code): a model of src/src/main.rs.                       *)
(*                                                                         *)
(* A run is main(): discover_files, find_references (one step per PHP      *)
(* file of php_files), find_dead_files (with find_root_files),             *)
(* print_results, and in delete mode the confirmation read and             *)
(* delete_files (one step per file).                                       *)
(*                                                                         *)
(* Text is a sequence of lexemes.  A lexeme is one of the characters the   *)
(* regular expressions of the program look at ("/", "*", "#", the line     *)
(* feed, the blank) or a word: a run of characters that holds none of      *)
(* them and that no other word of the model is part of ("util.php",        *)
(* "Plugin Name:").  On such text a match of a regular expression and      *)
(* str::contains of a base name are decided lexeme by lexeme exactly as    *)
(* they are decided character by character.                                *)
(*                                                                         *)
(* Left out: cli.verbose, which changes only what is printed, and the exit *)
(* of main when the path given does not exist, which comes before any      *)
(* scan.  A definition introduced as "Variant:" is not part of the         *)
(* program: it is the definition after it with one fault, kept to show     *)
(* that the property stated of the program tells the two apart.            *)
(***************************************************************************)
EXTENDS Integers, Sequences, FiniteSets, TLC

\* ------------------------------------------------------------------ bounds
\* Longest text of the PHP file of the exhaustive one-referrer projects.
MaxLen == 3
\* Most reads that fail during one call of find_root_files.
MaxReadFail == 1

\* ------------------------------------------------------------------ text
NL == "\n"
HEADER == "Plugin Name:"

Min(S) == CHOOSE x \in S : \A y \in S : x <= y

\* \s of the regex crate, on the characters of the model.
IsSpace(c) == c \in {" ", NL}

\* The last position `.*` reaches from i: `.` matches anything but a line feed.
LineEnd(s, i) ==
    LET nl == {k \in i..Len(s) : s[k] = NL}
    IN  IF nl = {} THEN Len(s) ELSE Min(nl) - 1

\* The matches of //.* in s from position i on, leftmost first, not overlapping.
RECURSIVE SingleLineSpans(_, _)
SingleLineSpans(s, i) ==
    IF i >= Len(s) THEN <<>>
    ELSE IF s[i] = "/" /\ s[i + 1] = "/"
         THEN <<(<<i, LineEnd(s, i)>>)>> \o SingleLineSpans(s, LineEnd(s, i) + 1)
         ELSE SingleLineSpans(s, i + 1)

\* The matches of #.* in s from position i on.
RECURSIVE HashSpans(_, _)
HashSpans(s, i) ==
    IF i > Len(s) THEN <<>>
    ELSE IF s[i] = "#"
         THEN <<(<<i, LineEnd(s, i)>>)>> \o HashSpans(s, LineEnd(s, i) + 1)
         ELSE HashSpans(s, i + 1)

\* The matches of (?s)/\*.*?\*/ in s from position i on: from a "/*" to the
\* nearest "*/" that starts after it, line feeds included.
RECURSIVE MultiLineSpans(_, _)
MultiLineSpans(s, i) ==
    IF i + 3 > Len(s) THEN <<>>
    ELSE LET closers == {j \in (i + 2)..(Len(s) - 1) : s[j] = "*" /\ s[j + 1] = "/"}
         IN  IF s[i] = "/" /\ s[i + 1] = "*" /\ closers # {}
             THEN <<(<<i, Min(closers) + 1>>)>> \o MultiLineSpans(s, Min(closers) + 2)
             ELSE MultiLineSpans(s, i + 1)

\* Regex::replace_all(s, ""): s without the matched spans.
ReplaceAll(s, spans) ==
    LET idx == [k \in 1..Len(s) |-> k]
        kept == SelectSeq(idx, LAMBDA k : \A n \in 1..Len(spans) :
                                              k < spans[n][1] \/ k > spans[n][2])
    IN  [n \in 1..Len(kept) |-> s[kept[n]]]

\* The loop over captures_iter: every match, each followed by a line feed.
RECURSIVE PushCaptures(_, _, _)
PushCaptures(s, spans, n) ==
    IF n > Len(spans) THEN <<>>
    ELSE SubSeq(s, spans[n][1], spans[n][2]) \o <<NL>> \o PushCaptures(s, spans, n + 1)

\* clean_content: block comments removed first, then // comments, then # comments,
\* each removal working on the result of the one before.
clean_content(content) ==
    LET c1 == ReplaceAll(content, MultiLineSpans(content, 1))
        c2 == ReplaceAll(c1, SingleLineSpans(c1, 1))
    IN  ReplaceAll(c2, HashSpans(c2, 1))

\* comment_content: the matches of the three patterns on the original text.
comment_content(content) ==
    PushCaptures(content, SingleLineSpans(content, 1), 1)
      \o PushCaptures(content, MultiLineSpans(content, 1), 1)
      \o PushCaptures(content, HashSpans(content, 1), 1)

\* str::contains(filename): a base name is one word.
Contains(text, filename) == \E i \in 1..Len(text) : text[i] = filename

\* A position where (?m)^ matches: the start of the text or after a line feed.
LineStart(s, i) == i = 1 \/ s[i - 1] = NL

\* Variant: the pattern with the star made optional, (?m)^\s*\*?\s*Plugin Name:
HeaderMatchOptionalStar(s) ==
    \E k \in 1..Len(s) :
        /\ s[k] = HEADER
        /\ \/ \E i \in 1..k : LineStart(s, i) /\ \A m \in i..(k - 1) : IsSpace(s[m])
           \/ \E j \in 1..(k - 1) :
                 /\ s[j] = "*"
                 /\ \A m \in (j + 1)..(k - 1) : IsSpace(s[m])
                 /\ \E i \in 1..j : LineStart(s, i) /\ \A m \in i..(j - 1) : IsSpace(s[m])

\* plugin_header_pattern.is_match: (?m)^\s*\*\s*Plugin Name:
HeaderMatch(s) ==
    \E k \in 1..Len(s) :
        /\ s[k] = HEADER
        /\ \E j \in 1..(k - 1) :
              /\ s[j] = "*"
              /\ \A m \in (j + 1)..(k - 1) : IsSpace(s[m])
              /\ \E i \in 1..j : LineStart(s, i) /\ \A m \in i..(j - 1) : IsSpace(s[m])

\* ------------------------------------------------------------------ paths
\* The files of the project directory.  README.txt has no recognised extension.
Paths == {"main.php", "inc/helper.php", "inc/util.php", "js/old.JS", "README.txt"}

\* Path::file_name
file_name(path) ==
    CASE path = "main.php" -> "main.php"
      [] path = "inc/helper.php" -> "helper.php"
      [] path = "inc/util.php" -> "util.php"
      [] path = "js/old.JS" -> "old.JS"
      [] OTHER -> "README.txt"

\* Path::extension
extension(path) ==
    CASE path \in {"main.php", "inc/helper.php", "inc/util.php"} -> "php"
      [] path = "js/old.JS" -> "JS"
      [] OTHER -> "txt"

to_lowercase(ext) == IF ext = "JS" THEN "js" ELSE ext

\* FileType::from_extension; "None" is Option::None.
from_extension(ext) ==
    CASE to_lowercase(ext) = "php" -> "Php"
      [] to_lowercase(ext) = "js" -> "JavaScript"
      [] to_lowercase(ext) = "css" -> "Css"
      [] OTHER -> "None"

file_type(path) == from_extension(extension(path))

\* The sequences that list every element of S once.
Perms(S) ==
    {s \in [1..Cardinality(S) -> S] : \A i, j \in 1..Cardinality(S) : s[i] = s[j] => i = j}

Range(s) == {s[i] : i \in 1..Len(s)}

\* ------------------------------------------------------------------ state
VARIABLES
    content,               \* the file system: the text of every file
    onDisk,                \* the file system: the files that exist
    delete,                \* cli.delete
    pc,                    \* where main() is
    files,                 \* DeadCodeFinder.files: path -> FileInfo
    order,                 \* the iteration order of the HashMap `files`
    php_files,             \* DeadCodeFinder.php_files
    idx,                   \* find_references: the next element of php_files
    roots,                 \* find_dead_files: what find_root_files returned
    unreadable,            \* the files find_root_files could not read
    dead_files,            \* main: the first list find_dead_files returned
    commented_dead_files,  \* main: the second list
    del,                   \* delete_files: the next element of its argument
    err,                   \* the error main() returned, "none" when none
    out                    \* what was printed, one entry per message

vars == <<content, onDisk, delete, pc, files, order, php_files, idx, roots,
          unreadable, dead_files, commented_dead_files, del, err, out>>

Msg(m, p) == [msg |-> m, path |-> p]
Printed(m) == \E n \in 1..Len(out) : out[n].msg = m

\* ------------------------------------------------------------------ projects
\* The plugin header as WordPress documents it: every line of the block starred.
StarHeader == <<"/", "*", NL, " ", "*", " ", HEADER, NL, " ", "*", "/", NL>>
\* The plugin header without the stars.
PlainHeader == <<"/", "*", NL, HEADER, NL, "*", "/", NL>>

MainTexts ==
    { StarHeader,
      PlainHeader,
      StarHeader \o <<"/", "/", " ", "helper.php", NL>> }

HelperTexts ==
    { <<"include", " ", "util.php", NL>>,
      <<"include", " ", "util.php", " ", "/", "/", " ", "util.php", " ", "old.JS", NL>>,
      <<"'http:", "/", "/", "x'", " ", "/", "*", NL, "*", "/", " ", "include", " ",
        "util.php", NL>>,
      StarHeader \o <<"#", " ", "util.php", NL>> }

UtilTexts ==
    { <<>>,
      <<"/", "*", " ", "old.JS", " ", "helper.php", NL, "*", "/", "main.php", " ",
        "util.php", NL>> }

\* The projects of three PHP files, one script and one file that is no source.
ScenarioProjects ==
    { [p \in Paths |-> CASE p = "main.php" -> m
                         [] p = "inc/helper.php" -> h
                         [] p = "inc/util.php" -> u
                         [] OTHER -> <<>>] :
        m \in MainTexts, h \in HelperTexts, u \in UtilTexts }

Alphabet == {"/", "*", "#", NL, " ", HEADER, "util.php"}

Texts == UNION {[1..n -> Alphabet] : n \in 0..MaxLen}

\* The projects of one referrer, with any text up to MaxLen, and one target.
TextProjects ==
    { [p \in Paths |-> IF p = "inc/helper.php" THEN t ELSE <<>>] : t \in Texts }

Init ==
    /\ \/ /\ content \in ScenarioProjects
          /\ onDisk = Paths
          /\ delete \in BOOLEAN
       \/ /\ content \in TextProjects
          /\ onDisk = {"inc/helper.php", "inc/util.php"}
          /\ delete = FALSE
    /\ pc = "discover"
    /\ files = << >>
    /\ order = << >>
    /\ php_files = << >>
    /\ idx = 1
    /\ roots = {}
    /\ unreadable = {}
    /\ dead_files = << >>
    /\ commented_dead_files = << >>
    /\ del = 1
    /\ err = "none"
    /\ out = << >>

\* ------------------------------------------------------------------ discovery
\* FileInfo as discover_files creates it.
NewFileInfo(path) ==
    [path |-> path, file_type |-> file_type(path),
     referenced_by |-> << >>, referenced_in_comments |-> << >>]

\* discover_files, and main's line "Found n files to analyze".  The walk meets
\* the files in an order of its own (php_files); the HashMap iterates in
\* another (order).
Discover ==
    /\ pc = "discover"
    /\ LET found == {p \in onDisk : file_type(p) # "None"}
       IN  /\ files' = [p \in found |-> NewFileInfo(p)]
           /\ php_files' \in Perms({p \in found : file_type(p) = "Php"})
           /\ order' \in Perms(found)
    /\ idx' = 1
    /\ out' = Append(out, Msg("Found files to analyze", ""))
    /\ pc' = "scan"
    /\ UNCHANGED <<content, onDisk, delete, roots, unreadable, dead_files,
                   commented_dead_files, del, err>>

\* ------------------------------------------------------------------ scan
\* Variant: two independent `if`s, a referrer may enter both lists.
RecordBoth(file_info, php_file, found_in_clean, found_in_comments) ==
    [file_info EXCEPT
        !.referenced_by = IF found_in_clean THEN Append(@, php_file) ELSE @,
        !.referenced_in_comments = IF found_in_comments THEN Append(@, php_file) ELSE @]

\* The body of `if let Some(file_info)`: one referrer recorded for one target.
Record(file_info, php_file, found_in_clean, found_in_comments) ==
    IF found_in_clean
    THEN [file_info EXCEPT !.referenced_by = Append(@, php_file)]
    ELSE IF found_in_comments
         THEN [file_info EXCEPT !.referenced_in_comments = Append(@, php_file)]
         ELSE file_info

\* The loop "Check each filename" for one php_file whose text was read.
CheckFilenames(php_file, text) ==
    LET clean == clean_content(text)
        comments == comment_content(text)
    IN  [file_path \in DOMAIN files |->
            IF file_path = php_file
            THEN files[file_path]
            ELSE Record(files[file_path], php_file,
                        Contains(clean, file_name(file_path)),
                        Contains(comments, file_name(file_path)))]

\* Variant: a file that cannot be read is skipped and the scan goes on.
ScanFileSkipUnreadable ==
    /\ pc = "scan"
    /\ idx <= Len(php_files)
    /\ \E ok \in BOOLEAN :
          /\ files' = IF ok THEN CheckFilenames(php_files[idx], content[php_files[idx]])
                            ELSE files
          /\ err' = IF ok THEN err ELSE "read"
    /\ idx' = idx + 1
    /\ UNCHANGED <<content, onDisk, delete, pc, order, php_files, roots, unreadable,
                   dead_files, commented_dead_files, del, out>>

\* One turn of the loop of find_references: read_to_string fails and `?`
\* returns the error from find_references and from main, or the file is scanned.
ScanFile ==
    /\ pc = "scan"
    /\ idx <= Len(php_files)
    /\ \E ok \in BOOLEAN :
          IF ok
          THEN /\ files' = CheckFilenames(php_files[idx], content[php_files[idx]])
               /\ idx' = idx + 1
               /\ UNCHANGED <<pc, err>>
          ELSE /\ pc' = "failed"
               /\ err' = "read"
               /\ UNCHANGED <<files, idx>>
    /\ UNCHANGED <<content, onDisk, delete, order, php_files, roots, unreadable,
                   dead_files, commented_dead_files, del, out>>

\* ------------------------------------------------------------------ roots
\* The sets of files whose read may fail during one call of find_root_files.
ReadFailures ==
    {U \in SUBSET {p \in DOMAIN files : file_type(p) = "Php"} : Cardinality(U) <= MaxReadFail}

\* The positions of `order` whose file find_root_files takes for a root: a PHP
\* file that can be read and whose text matches plugin_header_pattern.
RootPositions(failed) ==
    {n \in 1..Len(order) :
        /\ files[order[n]].file_type = "Php"
        /\ order[n] \notin failed
        /\ HeaderMatch(content[order[n]])}

\* Variant: no return at the first match.
find_root_files_all(failed) == {order[n] : n \in RootPositions(failed)}

\* find_root_files: returns at the first match.
find_root_files(failed) ==
    IF RootPositions(failed) = {} THEN {} ELSE {order[Min(RootPositions(failed))]}

\* ------------------------------------------------------------------ classify
\* Variant: a reference counts only when the referrer is referenced itself.
is_referenced_by_live(file_info) ==
    \E n \in 1..Len(file_info.referenced_by) :
        files[file_info.referenced_by[n]].referenced_by # << >>

is_referenced(file_info) == file_info.referenced_by # << >>
is_commented(file_info) == file_info.referenced_in_comments # << >>

\* Variant: the test of is_referenced is missing.
DeadOfIgnoringReferences(r) ==
    SelectSeq(order, LAMBDA p : p \notin r /\ ~is_commented(files[p]))

\* The first list of find_dead_files, in the order the HashMap iterates.
DeadOf(r) ==
    SelectSeq(order, LAMBDA p : /\ p \notin r
                                /\ ~is_referenced(files[p])
                                /\ ~is_commented(files[p]))

\* The second list of find_dead_files.
CommentedDeadOf(r) ==
    SelectSeq(order, LAMBDA p : /\ p \notin r
                                /\ ~is_referenced(files[p])
                                /\ is_commented(files[p]))

\* find_references has returned Ok; main calls find_dead_files.
FindDeadFiles ==
    /\ pc = "scan"
    /\ idx > Len(php_files)
    /\ \E failed \in ReadFailures :
          LET r == find_root_files(failed)
          IN  /\ unreadable' = failed
              /\ roots' = r
              /\ dead_files' = DeadOf(r)
              /\ commented_dead_files' = CommentedDeadOf(r)
    /\ pc' = "report"
    /\ UNCHANGED <<content, onDisk, delete, files, order, php_files, idx, del, err, out>>

\* ------------------------------------------------------------------ report
\* print_results without its verbose part: the two sections and the last line.
Report ==
    (IF dead_files # << >> THEN <<Msg("Dead files", "")>> ELSE << >>)
      \o (IF commented_dead_files # << >>
          THEN <<Msg("Files only referenced in comments", "")>> ELSE << >>)
      \o (IF dead_files = << >> /\ commented_dead_files = << >>
          THEN <<Msg("No dead files found", "")>>
          ELSE <<Msg("Found dead files", "")>>)

\* Variant: the comment-only-dead files do not count.
DeleteModeOnlyIfDead == delete /\ dead_files # << >>

\* The condition of main's `if` after print_results.
DeleteMode == delete /\ (dead_files # << >> \/ commented_dead_files # << >>)

\* print_results, then main's `if`: in delete mode the three lines of the
\* prompt are printed and main is about to read a line.  print_results calls
\* find_root_files again, for the list of roots that only --verbose prints.
PrintResults ==
    /\ pc = "report"
    /\ IF DeleteMode
       THEN /\ out' = out \o Report \o <<Msg("DELETE MODE ENABLED", "")>>
            /\ pc' = "confirm"
       ELSE /\ out' = out \o Report
            /\ pc' = "done"
    /\ UNCHANGED <<content, onDisk, delete, files, order, php_files, idx, roots,
                   unreadable, dead_files, commented_dead_files, del, err>>

\* ------------------------------------------------------------------ delete
\* What the blocking read of main can come to: a line (or the end of the
\* input) is read, the read fails and `?` returns the error, or the user
\* presses Ctrl+C as the prompt offers and the process ends there.
ReadLineOutcomes == {"line", "error", "interrupt"}

\* stdin().read_line(&mut input)?
Confirm ==
    /\ pc = "confirm"
    /\ \E r \in ReadLineOutcomes :
          /\ pc' = CASE r = "line" -> "deleting"
                     [] r = "error" -> "failed"
                     [] OTHER -> "interrupted"
          /\ err' = IF r = "error" THEN "stdin" ELSE err
    /\ del' = 1
    /\ UNCHANGED <<content, onDisk, delete, files, order, php_files, idx, roots,
                   unreadable, dead_files, commented_dead_files, out>>

\* Variant: both lists are given to delete_files.
delete_list_with_commented == dead_files \o commented_dead_files

\* The argument main gives delete_files.
delete_list == dead_files

\* Variant: a removal that fails is noted and the loop goes on.
DeleteFileKeepGoing ==
    /\ pc = "deleting"
    /\ del <= Len(delete_list)
    /\ out' = Append(out, Msg("Deleting", delete_list[del]))
    /\ \E ok \in BOOLEAN :
          /\ onDisk' = IF ok THEN onDisk \ {delete_list[del]} ELSE onDisk
          /\ err' = IF ok THEN err ELSE "remove"
    /\ del' = del + 1
    /\ UNCHANGED <<content, delete, pc, files, order, php_files, idx, roots, unreadable,
                   dead_files, commented_dead_files>>

\* One turn of the loop of delete_files: the line "Deleting:", then
\* fs::remove_file, whose error `?` returns from delete_files and from main.
DeleteFile ==
    /\ pc = "deleting"
    /\ del <= Len(delete_list)
    /\ out' = Append(out, Msg("Deleting", delete_list[del]))
    /\ \E ok \in BOOLEAN :
          IF ok
          THEN /\ onDisk' = onDisk \ {delete_list[del]}
               /\ del' = del + 1
               /\ UNCHANGED <<pc, err>>
          ELSE /\ pc' = "failed"
               /\ err' = "remove"
               /\ UNCHANGED <<onDisk, del>>
    /\ UNCHANGED <<content, delete, files, order, php_files, idx, roots, unreadable,
                   dead_files, commented_dead_files>>

\* delete_files has returned Ok: the count of deleted files, the note about the
\* files only referenced in comments, and main returns Ok.
Deleted ==
    /\ pc = "deleting"
    /\ del > Len(delete_list)
    /\ out' = out \o <<Msg("Deleted dead files", "")>>
                  \o (IF commented_dead_files # << >>
                      THEN <<Msg("Note: not deleted for safety", "")>> ELSE << >>)
    /\ pc' = "done"
    /\ UNCHANGED <<content, onDisk, delete, files, order, php_files, idx, roots,
                   unreadable, dead_files, commented_dead_files, del, err>>

\* ------------------------------------------------------------------ the run
Next ==
    \/ Discover
    \/ ScanFile
    \/ FindDeadFiles
    \/ PrintResults
    \/ Confirm
    \/ DeleteFile
    \/ Deleted

Spec == Init /\ [][Next]_vars

\* ------------------------------------------------------------------ properties
Catalog == DOMAIN files
PhpCatalog == {p \in Catalog : files[p].file_type = "Php"}

\* find_dead_files has returned.
Classified ==
    \/ pc \in {"report", "confirm", "deleting", "done", "interrupted"}
    \/ pc = "failed" /\ err \in {"stdin", "remove"}

\* main has returned or the process has ended.
RunEnded == pc \in {"done", "failed", "interrupted"}

\* The files of the catalog that are no longer on disk.
Removed == Catalog \ onDisk

Dead == Range(dead_files)
CommentedDead == Range(commented_dead_files)
Alive == {F \in Catalog \ roots : files[F].referenced_by # << >>}

\* The PHP files find_references has scanned.
Scanned == {php_files[k] : k \in 1..(IF idx - 1 < Len(php_files) THEN idx - 1 ELSE Len(php_files))}

Referrers(F) == Range(files[F].referenced_by) \cup Range(files[F].referenced_in_comments)

\* C1: once the files are classified, every file of the catalog that is no
\* root is in exactly one of three cases: alive (referenced_by not empty, in
\* neither list), in the dead list (both reference lists empty), in the
\* comment-only-dead list (referenced_by empty, referenced_in_comments not);
\* no referenced file is in a list and no file is in both lists.
C1_Partition ==
    Classified =>
        /\ \A F \in Catalog \ roots :
              LET alive == /\ files[F].referenced_by # << >>
                           /\ F \notin Dead /\ F \notin CommentedDead
                  dead == /\ F \in Dead
                          /\ files[F].referenced_by = << >>
                          /\ files[F].referenced_in_comments = << >>
                  commented == /\ F \in CommentedDead
                               /\ files[F].referenced_by = << >>
                               /\ files[F].referenced_in_comments # << >>
              IN  /\ alive \/ dead \/ commented
                  /\ ~(alive /\ dead) /\ ~(alive /\ commented) /\ ~(dead /\ commented)
        /\ \A F \in Catalog :
              files[F].referenced_by # << >> => F \notin Dead \cup CommentedDead
        /\ Dead \cap CommentedDead = {}

C1_Witness ==
    /\ Classified
    /\ Alive # {} /\ Dead # {} /\ CommentedDead # {} /\ roots # {}

\* C2 as stated: in a run with --delete in which no removal fails, the files
\* removed are exactly the Dead files when the run has ended, and at no time
\* is a file removed that is not Dead.
C2_RemovedIsDead ==
    /\ Removed \subseteq Dead
    /\ (delete /\ RunEnded /\ err # "remove") => Removed = Dead

\* C2 amended: in a run with --delete that returns Ok (the scan succeeds, the
\* confirmation line is read, no removal fails) the files removed are exactly
\* the Dead files; in every state of every run a removed file is a Dead file,
\* so no comment-only-dead, alive or root file is ever removed.
C2_RemovedIsDeadWhenOk ==
    /\ Removed \subseteq Dead
    /\ Removed \cap (CommentedDead \cup Alive \cup roots) = {}
    /\ (delete /\ pc = "done") => Removed = Dead
    /\ ~delete => Removed = {}

C2_Witness ==
    /\ delete /\ pc = "done"
    /\ Dead # {} /\ CommentedDead # {} /\ Alive # {} /\ roots # {}
    /\ Removed = Dead

\* C3: in every state, a referrer is in at most one of the two lists of a
\* target, and once in it; a referrer whose code-only text and comment-only
\* text both hold the name is in referenced_by alone; no file is in a list of
\* its own.
C3_OneListPerReferrer ==
    /\ \A F \in Catalog :
          /\ Range(files[F].referenced_by) \cap Range(files[F].referenced_in_comments) = {}
          /\ Len(files[F].referenced_by) = Cardinality(Range(files[F].referenced_by))
          /\ Len(files[F].referenced_in_comments)
                = Cardinality(Range(files[F].referenced_in_comments))
          /\ F \notin Referrers(F)
          /\ Referrers(F) \subseteq Scanned
    /\ \A P \in Scanned :
          LET clean == clean_content(content[P])
              comments == comment_content(content[P])
          IN  \A F \in Catalog \ {P} :
                 (Contains(clean, file_name(F)) /\ Contains(comments, file_name(F)))
                    => /\ P \in Range(files[F].referenced_by)
                       /\ P \notin Range(files[F].referenced_in_comments)

C3_Witness ==
    \E F \in Catalog : \E P \in Scanned \ {F} :
        /\ Contains(clean_content(content[P]), file_name(F))
        /\ Contains(comment_content(content[P]), file_name(F))
        /\ Contains(content[F], file_name(F))
        /\ F \in Scanned

\* The text has a line that holds, after leading blanks, `Plugin Name:`, with
\* or without a star before it.
HasHeaderLine(s) ==
    \E k \in 1..Len(s) :
        /\ s[k] = HEADER
        /\ \E i \in 1..k :
              /\ LineStart(s, i)
              /\ \A m \in i..(k - 1) : s[m] \in {" ", "*"}
              /\ Cardinality({m \in i..(k - 1) : s[m] = "*"}) <= 1

\* The same with the star required.  Written from the end of the match
\* backwards: before `Plugin Name:` come blanks and line feeds, before them a
\* star, and what is before the star up to a line start is blank.
HasStarHeader(s) ==
    \E k \in 1..Len(s) :
        /\ s[k] = HEADER
        /\ LET nonspace == {m \in 1..(k - 1) : ~IsSpace(s[m])}
               j == CHOOSE m \in nonspace : \A x \in nonspace : x <= m
               before == {m \in 1..(j - 1) : ~IsSpace(s[m])}
           IN  /\ nonspace # {}
               /\ s[j] = "*"
               /\ \/ before = {}
                  \/ \E m \in 1..(j - 1) :
                        /\ s[m] = NL
                        /\ \A x \in before : x < m

\* C4 as stated: the star is optional, so when every file can be read and a
\* PHP file has a header line, with or without a star, a file with such a
\* line is the root and is in neither list.
C4_OptionalStar ==
    (Classified /\ unreadable = {})
       => \A p \in PhpCatalog :
             HasHeaderLine(content[p])
                => /\ roots # {}
                   /\ \A r \in roots : HasHeaderLine(content[r])
                   /\ \A r \in roots : r \notin Dead \cup CommentedDead

\* C4 amended: the star is required.  The root is a PHP file whose text has,
\* from a line start, blanks, a star, blanks or line feeds and `Plugin Name:`;
\* when a PHP file with such a header can be read there is a root; a PHP file
\* whose header line is `Plugin Name:` with no star before it is not found as
\* the root by that line and is classified like any other file.
C4_StarRequired ==
    Classified =>
        /\ \A r \in roots : r \in PhpCatalog /\ HasStarHeader(content[r])
        /\ (\E p \in PhpCatalog \ unreadable : HasStarHeader(content[p])) => roots # {}
        /\ \A p \in PhpCatalog :
              ~HasStarHeader(content[p])
                 => /\ p \notin roots
                    /\ p \in Dead <=> (~is_referenced(files[p]) /\ ~is_commented(files[p]))

C4_Witness ==
    /\ Classified
    /\ unreadable = {}
    /\ \E p \in PhpCatalog :
          /\ HasHeaderLine(content[p])
          /\ ~HasStarHeader(content[p])
          /\ p \in Dead
          /\ roots = {}

\* C5: once every PHP file is scanned, a PHP file whose text holds the base
\* name of another file of the catalog is recorded as a referrer of that file,
\* in one list or the other, and the file is not in the dead list.
C5_EveryMentionRecorded ==
    (Classified \/ (pc = "scan" /\ idx > Len(php_files)))
       => \A P \in PhpCatalog : \A F \in Catalog \ {P} :
             Contains(content[P], file_name(F))
                => /\ P \in Referrers(F)
                   /\ F \notin Dead

ReportPrinted == Printed("No dead files found") \/ Printed("Found dead files")

\* C6: when the read of a PHP file fails during the scan the run ends there
\* with the error: no later PHP file is scanned, nothing is classified or
\* reported, the prompt is not shown, no file is removed and no step follows.
\* A read that fails during root location only leaves that file out: the
\* file is not the root and the run goes on to the report.
C6_ScanReadFailureAborts ==
    /\ err = "read" =>
          /\ pc = "failed"
          /\ idx <= Len(php_files)
          /\ \A F \in Catalog : Referrers(F) \subseteq {php_files[k] : k \in 1..(idx - 1)}
          /\ roots = {} /\ dead_files = << >> /\ commented_dead_files = << >>
          /\ out = <<Msg("Found files to analyze", "")>>
          /\ Removed = {}
          /\ ~ENABLED Next
    /\ (pc = "scan" /\ idx > Len(php_files)) => ENABLED FindDeadFiles
    /\ Classified =>
          /\ err # "read"
          /\ unreadable \cap roots = {}
          /\ pc = "report" => ENABLED PrintResults
          /\ pc = "done" => ReportPrinted

C6_Witness ==
    /\ err = "read"
    /\ 1 < idx /\ idx < Len(php_files)
    /\ \E F \in Catalog : Referrers(F) # {}

\* Root location met a file it could not read and the run went on to its end.
C6_WitnessRootLocation ==
    /\ pc = "done"
    /\ unreadable # {}
    /\ \E p \in unreadable : HeaderMatch(content[p])
    /\ roots # {}

\* The "Deleting:" lines printed so far.
Deleting == SelectSeq(out, LAMBDA m : m.msg = "Deleting")

\* C7: when the removal of a Dead file fails, the run ends there with the
\* error: the Dead files after it in the list are on disk and no removal of
\* them was attempted, the files removed before it stay removed, and the
\* count of deleted files is not printed.
C7_RemovalFailureAborts ==
    err = "remove" =>
        /\ pc = "failed"
        /\ delete
        /\ del \in 1..Len(dead_files)
        /\ \A k \in 1..Len(dead_files) : (dead_files[k] \in onDisk) <=> (k >= del)
        /\ Deleting = [k \in 1..del |-> Msg("Deleting", dead_files[k])]
        /\ ~Printed("Deleted dead files")
        /\ ~ENABLED Next

C7_Witness ==
    /\ err = "remove"
    /\ 1 < del /\ del < Len(dead_files)

\* The position of the first message m in out, 0 when it was not printed.
Position(m) ==
    IF Printed(m) THEN Min({n \in 1..Len(out) : out[n].msg = m}) ELSE 0

\* main is past its `if` on cli.delete.
PastReport == Classified /\ pc # "report"

\* The deletion step was entered: delete_files was called.
DeletionEntered ==
    \/ pc = "deleting"
    \/ err = "remove"
    \/ Printed("Deleted dead files")

\* C8 as stated: with --delete the prompt is shown after the report exactly
\* when a file is classified Dead, and the deletion step is entered only then.
C8_PromptIffDead ==
    (PastReport /\ delete) =>
        /\ Printed("DELETE MODE ENABLED") <=> dead_files # << >>
        /\ DeletionEntered => dead_files # << >>

\* C8 amended: with --delete the prompt is shown after the report exactly
\* when a file is classified Dead or comment-only-dead; the deletion step is
\* entered only after the prompt, when its line was read; a run whose only
\* findings are comment-only-dead files prompts, enters the deletion step and
\* removes nothing; a run with no findings, or without --delete, does
\* neither.
C8_PromptIffFindings ==
    /\ PastReport =>
          /\ Printed("DELETE MODE ENABLED")
                <=> (delete /\ (dead_files # << >> \/ commented_dead_files # << >>))
          /\ Printed("DELETE MODE ENABLED")
                => /\ ReportPrinted
                   /\ Position("DELETE MODE ENABLED") = Len(Report) + 2
    /\ ~PastReport => ~Printed("DELETE MODE ENABLED")
    /\ DeletionEntered => Printed("DELETE MODE ENABLED") /\ err # "stdin"
    /\ (DeletionEntered /\ dead_files = << >>) => Removed = {}
    /\ (pc = "done" /\ Printed("DELETE MODE ENABLED")) => Printed("Deleted dead files")

C8_Witness ==
    /\ pc = "done" /\ delete
    /\ dead_files = << >> /\ commented_dead_files # << >>
    /\ Printed("DELETE MODE ENABLED")
    /\ Printed("Deleted dead files")

\* The PHP files root location could read and whose text has the header.
HeaderBearing == {p \in PhpCatalog \ unreadable : HeaderMatch(content[p])}

\* C9: find_root_files returns at most one file, the first in the order of the
\* HashMap among the files with the header; that file is in neither list
\* whatever its reference lists are; every other file with the header is
\* classified by its reference lists like any file that is no root.
C9_OneRoot ==
    /\ Cardinality(roots) <= 1
    /\ Classified =>
          /\ roots \cap (Dead \cup CommentedDead) = {}
          /\ roots \subseteq HeaderBearing
          /\ HeaderBearing # {} => roots # {}
          /\ \A r \in roots : \A n \in 1..Len(order) :
                order[n] \in HeaderBearing => \E m \in 1..n : order[m] = r
          /\ \A p \in HeaderBearing \ roots :
                /\ p \in Dead <=> (files[p].referenced_by = << >>
                                     /\ files[p].referenced_in_comments = << >>)
                /\ p \in CommentedDead <=> (files[p].referenced_by = << >>
                                              /\ files[p].referenced_in_comments # << >>)

C9_Witness ==
    /\ Classified
    /\ \E r \in roots :
          /\ files[r].referenced_by = << >>
          /\ files[r].referenced_in_comments = << >>
    /\ \E p \in HeaderBearing \ roots : p \in Dead

\* C10: one hop.  A file that is no root and whose base name is in the
\* code-only text of another PHP file is alive, in neither list, whether or
\* not that referrer is itself Dead; it is never removed, also when its only
\* referrer is.
C10_OneHop ==
    Classified =>
        \A P \in PhpCatalog :
            LET clean == clean_content(content[P])
            IN  \A F \in Catalog \ (roots \cup {P}) :
                   Contains(clean, file_name(F))
                      => /\ F \notin Dead \cup CommentedDead
                         /\ F \in onDisk
                         /\ P \in Range(files[F].referenced_by)

C10_Witness ==
    /\ pc = "done" /\ delete
    /\ \E F \in Catalog \ roots : \E P \in Dead :
          /\ files[F].referenced_by = <<P>>
          /\ P \notin onDisk
          /\ F \in onDisk
          /\ F \notin Dead \cup CommentedDead
====
